---- MODULE Spec2Model ----
(***************************************************************************)
(* Model of the kana engine (vocab/inflections.py), of the sentence lexer   *)
(* and grouper (vocab/sentence_parser.py) and of the sentence box text     *)
(* (vocab/vocab.py).                                                       *)
(*                                                                         *)
(* A Python character is modelled by its Unicode code point (an integer),  *)
(* a Python str by the sequence of its code points.  A raised exception is *)
(* a record [tag |-> "raise", exc |-> <class>, msg |-> <message>].         *)
(***************************************************************************)
EXTENDS Integers, Sequences, FiniteSets, TLC

VARIABLES
    (* inflections.py: one Inflections request *)
    base_verb,      \* the str handed to Inflections(...)
    verb_type,      \* the VerbType handed to Inflections(...)
    obj,            \* the constructed Inflections object, NoObj, or the exception raised
    ret,            \* what the last call on the verb returned or raised
    ipc,            \* which call of inflections.py acted last
    (* inflections.py: one HiraganaLetter *)
    orig,           \* the letter HiraganaLetter(g) the run started from
    arg,            \* the argument of the last call on a letter
    mid,            \* the value the first call of a round trip produced
    out,            \* what the last call on a letter returned or raised
    lpc,            \* which call on a letter acted last
    (* sentence_parser.py: one call of group(tokens) *)
    tokens,         \* the argument of group
    pos,            \* number of tokens the for loop has consumed
    state,          \* local variable state
    groups,         \* local variable groups
    buf,            \* local variable buf
    gpc,            \* "loop", "done"
    (* sentence_parser.py: one call of parse(text) *)
    text,           \* local variable text: what is still to be read
    parsed_sequence,\* local variable parsed_sequence
    ptext,          \* the argument text as parse was called with
    ppc,            \* "loop", "done", "raised"
    (* vocab.py: one Sentence, rendered and parsed again *)
    sline,          \* a line of the sentences box
    sorigin,        \* "parsed": sentence came from parse_sentence(sline);
                    \* "constructed": from Sentence(jp, translation)
    sentence,       \* the Sentence
    stext,          \* render_sentence(sentence)
    sparsed,        \* parse_sentence(stext)
    spc             \* which call acted last

inflVars  == <<base_verb, verb_type, obj, ret, ipc>>
letterVars == <<orig, arg, mid, out, lpc>>
groupVars == <<tokens, pos, state, groups, buf, gpc>>
parseVars == <<ptext, text, parsed_sequence, ppc>>
sentVars == <<sline, sorigin, sentence, stext, sparsed, spc>>
vars == <<base_verb, verb_type, obj, ret, ipc, orig, arg, mid, out, lpc,
          tokens, pos, state, groups, buf, gpc,
          ptext, text, parsed_sequence, ppc,
          sline, sorigin, sentence, stext, sparsed, spc>>

(***************************************************************************)
(* Python values                                                           *)
(***************************************************************************)
Raise(exc, msg) == [tag |-> "raise", exc |-> exc, msg |-> msg]
IsRaise(v) == v.tag = "raise"

\* a value that is None or a str compared only for equality
PyNone == [none |-> TRUE, str |-> ""]
PyStr(s) == [none |-> FALSE, str |-> s]

\* Python's  x in s  for two str: x occurs in s as a substring
StrIn(x, s) ==
    \E k \in 0..(Len(s) - Len(x)) : SubSeq(s, k + 1, k + Len(x)) = x

\* Python's  s[:-1]
ButLast(s) == SubSeq(s, 1, Len(s) - 1)

\* Python's  s[-1]  and  s[-2]  as one-character str
LastCh(s) == <<s[Len(s)]>>
SndLastCh(s) == <<s[Len(s) - 1]>>

(***************************************************************************)
(* sentence_parser.py: character classes                                   *)
(***************************************************************************)
\* JpRE.hiragana_full  [U+3041-U+309F]
is_hiragana(c) == Len(c) >= 1 /\ c[1] >= 12353 /\ c[1] <= 12447

\* JpRE.kanji  [U+3400-U+4DB5 U+4E00-U+9FCB U+F900-U+FA6A]; re.match looks at
\* the first character of c only
is_kanji(c) ==
    /\ Len(c) >= 1
    /\ \/ (c[1] >= 13312 /\ c[1] <= 19893)
       \/ (c[1] >= 19968 /\ c[1] <= 40907)
       \/ (c[1] >= 63744 /\ c[1] <= 64106)

(***************************************************************************)
(* inflections.py: HiraganaLetter tables                                   *)
(***************************************************************************)
\* row name -> ending -> glyph; names and endings are str (code points of
\* "-", "k", ..., "nn" and of "a", "i", "u", "e", "o", "n")
rows ==
    (<<45>> :> ((<<97>> :> 12354) @@ (<<105>> :> 12356) @@ (<<117>> :> 12358) @@ (<<101>> :> 12360) @@ (<<111>> :> 12362))) @@
    (<<107>> :> ((<<97>> :> 12363) @@ (<<105>> :> 12365) @@ (<<117>> :> 12367) @@ (<<101>> :> 12369) @@ (<<111>> :> 12371))) @@
    (<<103>> :> ((<<97>> :> 12364) @@ (<<105>> :> 12366) @@ (<<117>> :> 12368) @@ (<<101>> :> 12370) @@ (<<111>> :> 12372))) @@
    (<<115>> :> ((<<97>> :> 12373) @@ (<<105>> :> 12375) @@ (<<117>> :> 12377) @@ (<<101>> :> 12379) @@ (<<111>> :> 12381))) @@
    (<<122>> :> ((<<97>> :> 12374) @@ (<<105>> :> 12376) @@ (<<117>> :> 12378) @@ (<<101>> :> 12380) @@ (<<111>> :> 12382))) @@
    (<<116>> :> ((<<97>> :> 12383) @@ (<<105>> :> 12385) @@ (<<117>> :> 12388) @@ (<<101>> :> 12390) @@ (<<111>> :> 12392))) @@
    (<<100>> :> ((<<97>> :> 12384) @@ (<<105>> :> 12386) @@ (<<117>> :> 12389) @@ (<<101>> :> 12391) @@ (<<111>> :> 12393))) @@
    (<<110>> :> ((<<97>> :> 12394) @@ (<<105>> :> 12395) @@ (<<117>> :> 12396) @@ (<<101>> :> 12397) @@ (<<111>> :> 12398))) @@
    (<<104>> :> ((<<97>> :> 12399) @@ (<<105>> :> 12402) @@ (<<117>> :> 12405) @@ (<<101>> :> 12408) @@ (<<111>> :> 12411))) @@
    (<<98>> :> ((<<97>> :> 12400) @@ (<<105>> :> 12403) @@ (<<117>> :> 12406) @@ (<<101>> :> 12409) @@ (<<111>> :> 12412))) @@
    (<<112>> :> ((<<97>> :> 12401) @@ (<<105>> :> 12404) @@ (<<117>> :> 12407) @@ (<<101>> :> 12410) @@ (<<111>> :> 12413))) @@
    (<<109>> :> ((<<97>> :> 12414) @@ (<<105>> :> 12415) @@ (<<117>> :> 12416) @@ (<<101>> :> 12417) @@ (<<111>> :> 12418))) @@
    (<<114>> :> ((<<97>> :> 12425) @@ (<<105>> :> 12426) @@ (<<117>> :> 12427) @@ (<<101>> :> 12428) @@ (<<111>> :> 12429))) @@
    (<<121>> :> ((<<97>> :> 12420) @@ (<<117>> :> 12422) @@ (<<111>> :> 12424))) @@
    (<<119>> :> ((<<97>> :> 12431) @@ (<<111>> :> 12434))) @@
    (<<110, 110>> :> (<<110>> :> 12435))

\* the (row name, ending) pairs of the table
RowEndings == {p \in (DOMAIN rows) \X {<<97>>, <<105>>, <<117>>, <<101>>, <<111>>, <<110>>} :
                 p[2] \in DOMAIN rows[p[1]]}

\* glyph -> (row name, ending), built by the loop over rows
by_letter ==
    [g \in {rows[p[1]][p[2]] : p \in RowEndings} |->
        CHOOSE p \in RowEndings : rows[p[1]][p[2]] = g]

\* row -> row with the sound mark; a plain dict on row names
dakuten_rules == (<<107>> :> <<103>>) @@ (<<115>> :> <<122>>) @@ (<<116>> :> <<100>>) @@ (<<104>> :> <<98>>)
handakuten_rules == (<<104>> :> <<112>>)

\* {v: k for k, v in chain(dakuten_rules.items(), handakuten_rules.items())}
reverse_dakuten_rules ==
    [v \in {dakuten_rules[k] : k \in DOMAIN dakuten_rules}
           \cup {handakuten_rules[k] : k \in DOMAIN handakuten_rules} |->
        IF \E k \in DOMAIN handakuten_rules : handakuten_rules[k] = v
        THEN CHOOSE k \in DOMAIN handakuten_rules : handakuten_rules[k] = v
        ELSE CHOOSE k \in DOMAIN dakuten_rules : dakuten_rules[k] = v]

\* dict.get: the value, or NoRow for None
NoRow == <<>>
DictGet(d, k) == IF k \in DOMAIN d THEN d[k] ELSE NoRow

\* HiraganaLetter.rows[row][ending], raising KeyError when either key is absent
RowsLookup(row, ending) ==
    IF row \in DOMAIN rows /\ ending \in DOMAIN rows[row]
    THEN [tag |-> "glyph", c |-> rows[row][ending]]
    ELSE Raise("KeyError", "")

(***************************************************************************)
(* inflections.py: HiraganaLetter                                          *)
(***************************************************************************)
\* HiraganaLetter.__init__(c) for a one-character str c
HiraganaLetter(c) ==
    IF Len(c) = 1 /\ c[1] \in DOMAIN by_letter
    THEN LET re == by_letter[c[1]] IN
         [tag |-> "letter", c |-> c, row |-> re[1], ending |-> re[2],
          dakuten |-> IF \E k \in DOMAIN dakuten_rules : dakuten_rules[k] = re[1]
                        THEN PyStr("dakuten")
                      ELSE IF \E k \in DOMAIN handakuten_rules : handakuten_rules[k] = re[1]
                        THEN PyStr("handakuten")
                      ELSE PyNone]
    ELSE Raise("KeyError", "")

\* HiraganaLetter(HiraganaLetter.rows[row][ending])
LetterAt(row, ending) ==
    LET g == RowsLookup(row, ending) IN
    IF IsRaise(g) THEN g ELSE HiraganaLetter(<<g.c>>)

\* HiraganaLetter.from_str(s)
from_str(s) ==
    IF Len(s) = 1 /\ is_hiragana(s)
    THEN HiraganaLetter(s)
    ELSE IF Len(s) = 0
    THEN Raise("ValueError", "empty romaji")
    ELSE LET re == IF s = <<115, 104, 105>> THEN <<(<<115>>), (<<105>>)>>      \* "shi"
                   ELSE IF s = <<99, 104, 105>> THEN <<(<<116>>), (<<105>>)>>  \* "chi"
                   ELSE IF s = <<116, 115, 117>> THEN <<(<<116>>), (<<117>>)>> \* "tsu"
                   ELSE IF s = <<102, 117>> THEN <<(<<104>>), (<<117>>)>>      \* "fu"
                   ELSE IF s = <<106, 105>> THEN <<(<<122>>), (<<105>>)>>      \* "ji"
                   ELSE IF s = <<110>> THEN <<(<<110, 110>>), (<<110>>)>>      \* "n"
                   ELSE IF Len(s) = 1 THEN <<(<<45>>), s>>
                   ELSE IF Len(s) = 2 THEN <<(<<s[1]>>), (<<s[2]>>)>>
                   ELSE <<NoRow, NoRow>>
             l == LetterAt(re[1], re[2])
         IN  IF IsRaise(l) /\ l.exc = "KeyError"
             THEN Raise("ValueError", "Cannot transform to a kana letter")
             ELSE l

\* HiraganaLetter.with_ending(self, ending)
with_ending(self, ending) ==
    IF ~StrIn(ending, <<97, 105, 117, 101, 111>>)
    THEN Raise("ValueError", "Ending must be one of 'aiueo'")
    ELSE LetterAt(self.row, ending)

\* an argument of with_dakuten: val is None or a str; lit tells whether a str
\* val is the very object of the equal literal in inflections.py (what the
\* operator "is" compares), which CPython decides by interning
MarkArg(val, lit) == [val |-> val, lit |-> lit]

\* HiraganaLetter.with_dakuten(self, dakuten)
RECURSIVE with_dakuten(_, _)
with_dakuten(self, dakuten) ==
    IF dakuten.val = self.dakuten
    THEN self
    ELSE IF dakuten.val.none
    THEN LetterAt(DictGet(reverse_dakuten_rules, self.row), self.ending)
    ELSE LET basic_letter == with_dakuten(self, MarkArg(PyNone, TRUE)) IN
         IF IsRaise(basic_letter) THEN basic_letter
         ELSE IF dakuten.val = PyStr("dakuten") /\ dakuten.lit
         THEN LET new_row == DictGet(dakuten_rules, basic_letter.row) IN
              IF new_row = NoRow
              THEN Raise("ValueError", "the row has no rule")
              ELSE LetterAt(new_row, basic_letter.ending)
         ELSE IF dakuten.val = PyStr("handakuten") /\ dakuten.lit
         THEN LET new_row == DictGet(handakuten_rules, basic_letter.row) IN
              IF new_row = NoRow
              THEN Raise("ValueError", "the row has no rule")
              ELSE LetterAt(new_row, basic_letter.ending)
         ELSE Raise("ValueError", "dakuten must either be 'dakuten' or 'handakuten'")

\* HiraganaLetter.romaji(self)
romaji(self) ==
    IF self.c = <<12375>> THEN <<115, 104, 105>>         \* shi
    ELSE IF self.c = <<12385>> THEN <<99, 104, 105>>     \* chi
    ELSE IF self.c = <<12388>> THEN <<116, 115, 117>>    \* tsu
    ELSE IF self.c = <<12405>> THEN <<102, 117>>         \* fu
    ELSE IF self.c = <<12376>> THEN <<106, 105>>         \* ji (z row)
    ELSE IF self.c = <<12386>> THEN <<106, 105>>         \* ji (d row)
    ELSE IF self.c = <<12389>> THEN <<122, 117>>         \* zu (d row)
    ELSE self.row \o self.ending

(***************************************************************************)
(* inflections.py: verbs                                                   *)
(***************************************************************************)
ICHIDAN == "ICHIDAN"
GODAN == "GODAN"
IRREGULAR == "IRREGULAR"

PyBool(b) == [tag |-> "value", v |-> IF b THEN "True" ELSE "False"]
PyNoneValue == [tag |-> "value", v |-> "None"]
Returned(s) == [tag |-> "str", s |-> s]

\* the kana ru
RU == <<12427>>

\* has_ichidan_ending(verb)
has_ichidan_ending(verb) ==
    IF Len(verb) < 2
    THEN PyBool(FALSE)
    ELSE IF is_kanji(SndLastCh(verb)) /\ LastCh(verb) = RU
    THEN PyNoneValue
    ELSE LET l == HiraganaLetter(SndLastCh(verb)) IN
         IF IsRaise(l) THEN l
         ELSE PyBool(StrIn(l.ending, <<105, 101>>) /\ LastCh(verb) = RU)

\* Python's truth value of what has_ichidan_ending returned
Truthy(v) == v.v = "True"

\* Mutant of Inflections: the ichidan check is made for every verb type
Inflections_CheckEveryType(bv, vt, applied_inflections, inflection) ==
    IF Len(bv) <= 1
    THEN Raise("ValueError", "Verb is empty or too short")
    ELSE IF ~StrIn(LastCh(bv), <<12427, 12388, 12358, 12367, 12377, 12406, 12416, 12396, 12368>>)
    THEN Raise("ValueError", "Final kana letter is no valid verb ending")
    ELSE LET h == has_ichidan_ending(bv) IN
         IF IsRaise(h) THEN h
         ELSE IF ~Truthy(h)
         THEN Raise("ValueError", "verb has no ichidan ending")
         ELSE [tag |-> "Inflections", base_verb |-> bv, verb_type |-> vt,
               applied_inflections |-> {}, inflection |-> inflection]

\* Inflections.__init__(base_verb, verb_type, applied_inflections, inflection);
\* applied_inflections is NoneSet for None, else a set; inflection is PyNone
\* or a str
NoneSet == [none |-> TRUE, set |-> {}]
Inflections(bv, vt, applied_inflections, inflection) ==
    IF Len(bv) <= 1
    THEN Raise("ValueError", "Verb is empty or too short")
    ELSE IF ~StrIn(LastCh(bv), <<12427, 12388, 12358, 12367, 12377, 12406, 12416, 12396, 12368>>)
    THEN Raise("ValueError", "Final kana letter is no valid verb ending")
    ELSE LET h == IF vt = ICHIDAN THEN has_ichidan_ending(bv) ELSE PyBool(TRUE) IN
         IF IsRaise(h) THEN h
         ELSE IF vt = ICHIDAN /\ ~Truthy(h)
         THEN Raise("ValueError", "verb has no ichidan ending")
         ELSE LET ai == IF applied_inflections.none THEN {} ELSE applied_inflections.set IN
              IF Cardinality(ai) # 0 /\ ~inflection.none
              THEN Raise("ValueError", "inflection must be None when no inflections are applied")
              ELSE [tag |-> "Inflections", base_verb |-> bv, verb_type |-> vt,
                    applied_inflections |-> ai, inflection |-> inflection]

\* Mutant of te: the ku branch is merged into the u/tsu/ru branch
te_KuDoubled(self) ==
    IF self.verb_type = ICHIDAN
    THEN Returned(ButLast(self.base_verb) \o <<12390>>)
    ELSE IF self.verb_type = GODAN
    THEN IF StrIn(LastCh(self.base_verb), <<12358, 12388, 12427, 12367>>)
         THEN Returned(ButLast(self.base_verb) \o <<12387, 12390>>)
         ELSE IF StrIn(LastCh(self.base_verb), <<12377>>)
         THEN Returned(ButLast(self.base_verb) \o <<12375, 12390>>)
         ELSE IF StrIn(LastCh(self.base_verb), <<12406, 12416, 12396>>)
         THEN Returned(ButLast(self.base_verb) \o <<12435, 12391>>)
         ELSE IF StrIn(LastCh(self.base_verb), <<12368>>)
         THEN Returned(ButLast(self.base_verb) \o <<12356, 12391>>)
         ELSE Raise("ValueError", "invalid verb ending")
    ELSE Raise("NotImplementedError", "")

\* Inflections.te(self)
te(self) ==
    IF self.verb_type = ICHIDAN
    THEN Returned(ButLast(self.base_verb) \o <<12390>>)
    ELSE IF self.verb_type = GODAN
    THEN IF StrIn(LastCh(self.base_verb), <<12358, 12388, 12427>>)
         THEN Returned(ButLast(self.base_verb) \o <<12387, 12390>>)
         ELSE IF StrIn(LastCh(self.base_verb), <<12367>>)
         THEN Returned(ButLast(self.base_verb) \o <<12356, 12390>>)
         ELSE IF StrIn(LastCh(self.base_verb), <<12377>>)
         THEN Returned(ButLast(self.base_verb) \o <<12375, 12390>>)
         ELSE IF StrIn(LastCh(self.base_verb), <<12406, 12416, 12396>>)
         THEN Returned(ButLast(self.base_verb) \o <<12435, 12391>>)
         ELSE IF StrIn(LastCh(self.base_verb), <<12368>>)
         THEN Returned(ButLast(self.base_verb) \o <<12356, 12391>>)
         ELSE Raise("ValueError", "invalid verb ending")
    ELSE Raise("NotImplementedError", "")

\* Mutant of masu: the godan branch keeps the last character as it is
masu_KeepsEnding(self) ==
    IF self.verb_type = ICHIDAN
    THEN Returned(ButLast(self.base_verb) \o <<12414, 12377>>)
    ELSE IF self.verb_type = GODAN
    THEN Returned(self.base_verb \o <<12414, 12377>>)
    ELSE Raise("NotImplementedError", "")

\* Inflections.masu(self)
masu(self) ==
    IF self.verb_type = ICHIDAN
    THEN Returned(ButLast(self.base_verb) \o <<12414, 12377>>)
    ELSE IF self.verb_type = GODAN
    THEN LET l == from_str(LastCh(self.base_verb))
             li == IF IsRaise(l) THEN l ELSE with_ending(l, <<105>>)
         IN  IF IsRaise(li) THEN li
             ELSE Returned(ButLast(self.base_verb) \o li.c \o <<12414, 12377>>)
    ELSE Raise("NotImplementedError", "")

(***************************************************************************)
(* sentence_parser.py: tokens, nodes and group                             *)
(***************************************************************************)
\* the tokens parse produces: Kanji(character), Furigana(text), SPACE, str
Kanji(character) == [tag |-> "Kanji", character |-> character]
Furigana(t) == [tag |-> "Furigana", text |-> t]
SPACE == [tag |-> "SPACE"]
Plain(s) == [tag |-> "str", s |-> s]

\* KanjiSequence(kanji, furigana): furigana is a Furigana token or NoFurigana
NoFurigana == [tag |-> "None"]
KanjiSequence(kanji, furigana) ==
    [tag |-> "KanjiSequence", kanji |-> kanji, furigana |-> furigana]

\* the characters re's \s matches in a str pattern
Whitespace ==
    (9..13) \cup (28..32) \cup {133, 160, 5760} \cup (8192..8202)
        \cup {8232, 8233, 8239, 8287, 12288}

\* is_whitespace(c): re.match looks at the first character of c
is_whitespace(c) == Len(c) >= 1 /\ c[1] \in Whitespace

\* Mutant of charseq: whitespace is kept
RECURSIVE charseq_KeepsWhitespace(_)
charseq_KeepsWhitespace(b) ==
    IF b = <<>> THEN <<>>
    ELSE Head(b).s \o charseq_KeepsWhitespace(Tail(b))

\* charseq(buf): the str tokens of buf that are not whitespace, joined
RECURSIVE charseq(_)
charseq(b) ==
    IF b = <<>> THEN <<>>
    ELSE (IF is_whitespace(Head(b).s) THEN <<>> ELSE Head(b).s) \o charseq(Tail(b))

\* the locals of group
Locals(st, g, b) == [tag |-> "locals", state |-> st, groups |-> g, buf |-> b]

\* Mutant of GroupToken: a Furigana met while buffering plain characters
\* flushes the plain run instead of being ignored
GroupToken_FuriganaFlushes(l, token) ==
    IF l.state = "empty"
    THEN IF token.tag = "str" THEN Locals("buffer str", l.groups, <<token>>)
         ELSE IF token.tag = "Kanji" THEN Locals("buffer kan", l.groups, <<token>>)
         ELSE IF token = SPACE THEN Locals(l.state, Append(l.groups, SPACE), l.buf)
         ELSE IF token.tag = "Furigana" THEN l
         ELSE Raise("ValueError", "invalid state")
    ELSE IF l.state = "buffer str"
    THEN IF token.tag = "str" THEN Locals(l.state, l.groups, Append(l.buf, token))
         ELSE IF token.tag = "Kanji"
         THEN Locals("buffer kan", Append(l.groups, Plain(charseq(l.buf))), <<token>>)
         ELSE IF token = SPACE
         THEN Locals("empty", Append(Append(l.groups, Plain(charseq(l.buf))), SPACE), <<>>)
         ELSE IF token.tag = "Furigana"
         THEN Locals("empty", Append(l.groups, Plain(charseq(l.buf))), <<>>)
         ELSE Raise("ValueError", "invalid state")
    ELSE IF l.state = "buffer kan"
    THEN IF token.tag = "str"
         THEN Locals("buffer str", Append(l.groups, KanjiSequence(l.buf, NoFurigana)), <<token>>)
         ELSE IF token.tag = "Kanji" THEN Locals(l.state, l.groups, Append(l.buf, token))
         ELSE IF token.tag = "Furigana"
         THEN Locals("empty", Append(l.groups, KanjiSequence(l.buf, token)), <<>>)
         ELSE IF token = SPACE
         THEN Locals("empty", Append(Append(l.groups, KanjiSequence(l.buf, NoFurigana)), SPACE), <<>>)
         ELSE Raise("ValueError", "invalid state")
    ELSE Raise("ValueError", "invalid state")

\* Mutant of GroupToken: the Furigana branch of state buffer kan forgets
\* state = 'empty'
GroupToken_KeepsStateOnFurigana(l, token) ==
    IF l.state = "empty"
    THEN IF token.tag = "str" THEN Locals("buffer str", l.groups, <<token>>)
         ELSE IF token.tag = "Kanji" THEN Locals("buffer kan", l.groups, <<token>>)
         ELSE IF token = SPACE THEN Locals(l.state, Append(l.groups, SPACE), l.buf)
         ELSE IF token.tag = "Furigana" THEN l
         ELSE Raise("ValueError", "invalid state")
    ELSE IF l.state = "buffer str"
    THEN IF token.tag = "str" THEN Locals(l.state, l.groups, Append(l.buf, token))
         ELSE IF token.tag = "Kanji"
         THEN Locals("buffer kan", Append(l.groups, Plain(charseq(l.buf))), <<token>>)
         ELSE IF token = SPACE
         THEN Locals("empty", Append(Append(l.groups, Plain(charseq(l.buf))), SPACE), <<>>)
         ELSE IF token.tag = "Furigana" THEN l
         ELSE Raise("ValueError", "invalid state")
    ELSE IF l.state = "buffer kan"
    THEN IF token.tag = "str"
         THEN Locals("buffer str", Append(l.groups, KanjiSequence(l.buf, NoFurigana)), <<token>>)
         ELSE IF token.tag = "Kanji" THEN Locals(l.state, l.groups, Append(l.buf, token))
         ELSE IF token.tag = "Furigana"
         THEN Locals(l.state, Append(l.groups, KanjiSequence(l.buf, token)), <<>>)
         ELSE IF token = SPACE
         THEN Locals("empty", Append(Append(l.groups, KanjiSequence(l.buf, NoFurigana)), SPACE), <<>>)
         ELSE Raise("ValueError", "invalid state")
    ELSE Raise("ValueError", "invalid state")

\* one iteration of the for loop of group on the locals l
GroupToken(l, token) ==
    IF l.state = "empty"
    THEN IF token.tag = "str" THEN Locals("buffer str", l.groups, <<token>>)
         ELSE IF token.tag = "Kanji" THEN Locals("buffer kan", l.groups, <<token>>)
         ELSE IF token = SPACE THEN Locals(l.state, Append(l.groups, SPACE), l.buf)
         ELSE IF token.tag = "Furigana" THEN l
         ELSE Raise("ValueError", "invalid state")
    ELSE IF l.state = "buffer str"
    THEN IF token.tag = "str" THEN Locals(l.state, l.groups, Append(l.buf, token))
         ELSE IF token.tag = "Kanji"
         THEN Locals("buffer kan", Append(l.groups, Plain(charseq(l.buf))), <<token>>)
         ELSE IF token = SPACE
         THEN Locals("empty", Append(Append(l.groups, Plain(charseq(l.buf))), SPACE), <<>>)
         ELSE IF token.tag = "Furigana" THEN l
         ELSE Raise("ValueError", "invalid state")
    ELSE IF l.state = "buffer kan"
    THEN IF token.tag = "str"
         THEN Locals("buffer str", Append(l.groups, KanjiSequence(l.buf, NoFurigana)), <<token>>)
         ELSE IF token.tag = "Kanji" THEN Locals(l.state, l.groups, Append(l.buf, token))
         ELSE IF token.tag = "Furigana"
         THEN Locals("empty", Append(l.groups, KanjiSequence(l.buf, token)), <<>>)
         ELSE IF token = SPACE
         THEN Locals("empty", Append(Append(l.groups, KanjiSequence(l.buf, NoFurigana)), SPACE), <<>>)
         ELSE Raise("ValueError", "invalid state")
    ELSE Raise("ValueError", "invalid state")

\* Mutant of GroupFlush: kanji still buffered at the end of input are lost
GroupFlush_DropsKanji(l) ==
    IF l.state = "empty" THEN l.groups
    ELSE IF l.state = "buffer str" THEN Append(l.groups, Plain(charseq(l.buf)))
    ELSE IF l.state = "buffer kan" THEN l.groups
    ELSE Raise("ValueError", "invalid state")

\* the flush after the loop; the value group returns
GroupFlush(l) ==
    IF l.state = "empty" THEN l.groups
    ELSE IF l.state = "buffer str" THEN Append(l.groups, Plain(charseq(l.buf)))
    ELSE IF l.state = "buffer kan" THEN Append(l.groups, KanjiSequence(l.buf, NoFurigana))
    ELSE Raise("ValueError", "invalid state")

\* the locals after the loop has consumed the tokens ts, from the locals l
RECURSIVE GroupLoop(_, _)
GroupLoop(l, ts) ==
    IF ts = <<>> \/ IsRaise(l) THEN l
    ELSE GroupLoop(GroupToken(l, Head(ts)), Tail(ts))

\* group(tokens)
group(ts) ==
    LET l == GroupLoop(Locals("empty", <<>>, <<>>), ts) IN
    IF IsRaise(l) THEN l ELSE GroupFlush(l)

(***************************************************************************)
(* sentence_parser.py: parse                                               *)
(***************************************************************************)
\* the longest prefix of s made of characters of [U+3041-U+309F]
RECURSIVE HiraganaPrefix(_)
HiraganaPrefix(s) ==
    IF s # <<>> /\ s[1] >= 12353 /\ s[1] <= 12447
    THEN <<s[1]>> \o HiraganaPrefix(Tail(s))
    ELSE <<>>

NoMatch == [tag |-> "None"]

\* Mutant of FuriganaMatch: the furigana group needs one character at least
\* (+ instead of *)
FuriganaMatch_NeedsKana(s) ==
    IF s # <<>> /\ s[1] = 94 /\ HiraganaPrefix(Tail(s)) # <<>>
    THEN [tag |-> "match", furigana |-> HiraganaPrefix(Tail(s)),
          group0 |-> <<94>> \o HiraganaPrefix(Tail(s))]
    ELSE NoMatch

\* re.search of the pattern  ^ \^ (?P<furigana>[U+3041-U+309F]*)  in s: the
\* pattern is anchored at the start of s and the class is matched greedily
FuriganaMatch(s) ==
    IF s # <<>> /\ s[1] = 94
    THEN [tag |-> "match", furigana |-> HiraganaPrefix(Tail(s)),
          group0 |-> <<94>> \o HiraganaPrefix(Tail(s))]
    ELSE NoMatch

\* the locals of parse
ParseLocals(t, ps) == [tag |-> "locals", text |-> t, parsed_sequence |-> ps]

\* one iteration of the while loop of parse, for a non-empty l.text
ParseIter(l) ==
    IF is_kanji(<<l.text[1]>>)
    THEN ParseLocals(Tail(l.text), Append(l.parsed_sequence, Kanji(<<l.text[1]>>)))
    ELSE IF l.text[1] = 94
    THEN LET match == FuriganaMatch(l.text) IN
         IF match # NoMatch
         THEN ParseLocals(SubSeq(l.text, Len(match.group0) + 1, Len(l.text)),
                          Append(l.parsed_sequence, Furigana(match.furigana)))
         ELSE Raise("ValueError", "no match")
    ELSE IF l.text[1] = 126
    THEN ParseLocals(Tail(l.text), Append(l.parsed_sequence, SPACE))
    ELSE ParseLocals(Tail(l.text), Append(l.parsed_sequence, Plain(<<l.text[1]>>)))

\* the while loop of parse from the locals l
RECURSIVE ParseLoop(_)
ParseLoop(l) ==
    IF IsRaise(l) THEN l
    ELSE IF Len(l.text) = 0 THEN l.parsed_sequence
    ELSE ParseLoop(ParseIter(l))

\* parse(text)
parse(t) == ParseLoop(ParseLocals(t, <<>>))

(***************************************************************************)
(* vocab.py: Sentence, parse_sentence, render_sentence                     *)
(***************************************************************************)
\* Sentence(jp, translation): translation is NoTranslation for None, or
\* Returned(s) for the str s
NoTranslation == [tag |-> "None"]
Sentence(jp, translation) == [tag |-> "Sentence", jp |-> jp, translation |-> translation]

\* str.lstrip(), str.rstrip() and str.strip(): whitespace removed at the ends
RECURSIVE LStrip(_)
LStrip(s) == IF s # <<>> /\ s[1] \in Whitespace THEN LStrip(Tail(s)) ELSE s
RECURSIVE RStrip(_)
RStrip(s) == IF s # <<>> /\ s[Len(s)] \in Whitespace THEN RStrip(ButLast(s)) ELSE s
Strip(s) == RStrip(LStrip(s))

\* s.split(sep) for a one-character sep: the list of the parts
RECURSIVE Split(_, _)
Split(s, sep) ==
    IF \A k \in 1..Len(s) : s[k] # sep THEN <<s>>
    ELSE LET k == CHOOSE k \in 1..Len(s) :
                      s[k] = sep /\ \A j \in 1..(k - 1) : s[j] # sep
         IN  <<SubSeq(s, 1, k - 1)>> \o Split(SubSeq(s, k + 1, Len(s)), sep)

\* sep.join(parts)
RECURSIVE Join(_, _)
Join(sep, parts) ==
    IF parts = <<>> THEN <<>>
    ELSE IF Len(parts) = 1 THEN parts[1]
    ELSE parts[1] \o sep \o Join(sep, Tail(parts))

\* parse_sentence(sentence)
parse_sentence(s) ==
    LET parts == Split(s, 61) IN
    IF Len(parts) = 1
    THEN Sentence(Strip(parts[1]), NoTranslation)
    ELSE Sentence(Strip(parts[1]), Returned(Strip(Join(<<61>>, Tail(parts)))))

\* render_sentence(sentence):  "%s = %s" % (jp, translation)
render_sentence(sen) ==
    IF sen.translation = NoTranslation
    THEN sen.jp
    ELSE sen.jp \o <<32, 61, 32>> \o sen.translation.s

(***************************************************************************)
(* Bounded inputs                                                          *)
(***************************************************************************)
MaxVerbLen == 3
MaxTokens == 4
MaxTextLen == 4
MaxLineLen == 4
MaxFieldLen == 2

\* the characters a line of the sentences box and the fields of a Sentence
\* are drawn from: the latin letter a, the separator = and a blank
LineAlphabet == {97, 61, 32}

\* the characters a text is drawn from: the kanji ni and go, the hiragana ni,
\* the markers ^ and ~, the latin letter a and a blank
TextAlphabet == {26085, 35486, 12395, 94, 126, 97, 32}

\* characters a verb is drawn from: the nine endings ru tsu u ku su bu mu nu
\* gu, the kana be (b row, e column) and ka (k row, a column), the small tsu
\* (hiragana outside the table), the kanji of nomu, taberu and miru, and the
\* latin letter a
VerbAlphabet ==
    {12427, 12388, 12358, 12367, 12377, 12406, 12416, 12396, 12368,
     12409, 12363, 12387, 39154, 39135, 35211, 97}

RECURSIVE StrsUpTo(_, _)
StrsUpTo(A, n) ==
    IF n = 0 THEN {<<>>}
    ELSE LET S == StrsUpTo(A, n - 1) IN
         S \cup {Append(s, a) : s \in {t \in S : Len(t) = n - 1}, a \in A}

VerbTypes == {ICHIDAN, GODAN, IRREGULAR}

\* the arguments tried for with_ending: a i u e o, n, the empty str, "ai", k
EndingArgs ==
    {<<97>>, <<105>>, <<117>>, <<101>>, <<111>>, <<110>>, <<>>, <<97, 105>>, <<107>>}

\* the arguments tried for with_dakuten
MarkArgs ==
    {MarkArg(PyNone, TRUE)}
    \cup {MarkArg(PyStr(m), lit) : m \in {"dakuten", "handakuten"}, lit \in BOOLEAN}
    \cup {MarkArg(PyStr("maru"), FALSE)}

\* the tokens a sequence is drawn from: the kanji ni hon go, the furigana
\* nihon and the empty furigana, SPACE, the plain character a and a blank
TokenAlphabet ==
    {Kanji(<<26085>>), Kanji(<<26412>>), Kanji(<<35486>>),
     Furigana(<<12395, 12411, 12435>>), Furigana(<<>>), SPACE,
     Plain(<<97>>), Plain(<<32>>)}

(***************************************************************************)
(* State machine                                                           *)
(***************************************************************************)
Idle == [tag |-> "idle"]

InflIdle ==
    /\ base_verb = <<>> /\ verb_type = GODAN /\ obj = Idle /\ ret = Idle
    /\ ipc = "idle"
LetterIdle ==
    /\ orig = Idle /\ arg = Idle /\ mid = Idle /\ out = Idle /\ lpc = "idle"
GroupIdle ==
    /\ tokens = <<>> /\ pos = 0 /\ state = "empty" /\ groups = <<>>
    /\ buf = <<>> /\ gpc = "idle"
ParseIdle ==
    /\ ptext = <<>> /\ text = <<>> /\ parsed_sequence = <<>> /\ ppc = "idle"
SentIdle ==
    /\ sline = <<>> /\ sorigin = "idle" /\ sentence = Idle /\ stext = Idle
    /\ sparsed = Idle /\ spc = "idle"

(* ---- Inflections ---- *)
InitInfl ==
    /\ base_verb \in StrsUpTo(VerbAlphabet, MaxVerbLen)
    /\ verb_type \in VerbTypes
    /\ obj = Idle /\ ret = Idle /\ ipc = "start"
    /\ LetterIdle /\ GroupIdle /\ ParseIdle /\ SentIdle

\* Inflections(base_verb, verb_type)
Construct ==
    /\ ipc = "start"
    /\ obj' = Inflections(base_verb, verb_type, NoneSet, PyNone)
    /\ ipc' = "constructed"
    /\ UNCHANGED <<base_verb, verb_type, ret>>
    /\ UNCHANGED <<letterVars, groupVars, parseVars, sentVars>>

\* obj.te()
Te ==
    /\ ipc = "constructed" /\ obj.tag = "Inflections"
    /\ ret' = te(obj)
    /\ ipc' = "te"
    /\ UNCHANGED <<base_verb, verb_type, obj>>
    /\ UNCHANGED <<letterVars, groupVars, parseVars, sentVars>>

\* obj.masu()
Masu ==
    /\ ipc = "constructed" /\ obj.tag = "Inflections"
    /\ ret' = masu(obj)
    /\ ipc' = "masu"
    /\ UNCHANGED <<base_verb, verb_type, obj>>
    /\ UNCHANGED <<letterVars, groupVars, parseVars, sentVars>>

\* has_ichidan_ending(base_verb)
HasIchidanEnding ==
    /\ ipc = "start"
    /\ ret' = has_ichidan_ending(base_verb)
    /\ ipc' = "has_ichidan_ending"
    /\ UNCHANGED <<base_verb, verb_type, obj>>
    /\ UNCHANGED <<letterVars, groupVars, parseVars, sentVars>>

NextInfl == Construct \/ Te \/ Masu \/ HasIchidanEnding
SpecInfl == InitInfl /\ [][NextInfl]_vars

(* ---- HiraganaLetter ---- *)
InitLetter ==
    /\ orig \in {HiraganaLetter(<<g>>) : g \in DOMAIN by_letter}
    /\ arg = Idle /\ mid = Idle /\ out = Idle /\ lpc = "start"
    /\ InflIdle /\ GroupIdle /\ ParseIdle /\ SentIdle

\* orig.romaji()
Romaji ==
    /\ lpc = "start"
    /\ mid' = Returned(romaji(orig))
    /\ lpc' = "romaji"
    /\ UNCHANGED <<orig, arg, out>>
    /\ UNCHANGED <<inflVars, groupVars, parseVars, sentVars>>

\* HiraganaLetter.from_str(orig.romaji())
FromStr ==
    /\ lpc = "romaji"
    /\ out' = from_str(mid.s)
    /\ lpc' = "from_str"
    /\ UNCHANGED <<orig, arg, mid>>
    /\ UNCHANGED <<inflVars, groupVars, parseVars, sentVars>>

\* orig.with_ending(ending)
WithEnding ==
    /\ lpc = "start"
    /\ \E ending \in EndingArgs :
         /\ arg' = ending
         /\ out' = with_ending(orig, ending)
    /\ lpc' = "with_ending"
    /\ UNCHANGED <<orig, mid>>
    /\ UNCHANGED <<inflVars, groupVars, parseVars, sentVars>>

\* orig.with_dakuten(dakuten)
WithDakuten ==
    /\ lpc = "start"
    /\ \E dakuten \in MarkArgs :
         /\ arg' = dakuten
         /\ mid' = with_dakuten(orig, dakuten)
    /\ lpc' = "marked"
    /\ UNCHANGED <<orig, out>>
    /\ UNCHANGED <<inflVars, groupVars, parseVars, sentVars>>

\* orig.with_dakuten(dakuten).with_dakuten(None)
Unmark ==
    /\ lpc = "marked" /\ mid.tag = "letter"
    /\ out' = with_dakuten(mid, MarkArg(PyNone, TRUE))
    /\ lpc' = "unmarked"
    /\ UNCHANGED <<orig, arg, mid>>
    /\ UNCHANGED <<inflVars, groupVars, parseVars, sentVars>>

NextLetter == Romaji \/ FromStr \/ WithEnding \/ WithDakuten \/ Unmark
SpecLetter == InitLetter /\ [][NextLetter]_vars

(* ---- group ---- *)
InitGroup ==
    /\ tokens \in StrsUpTo(TokenAlphabet, MaxTokens)
    /\ pos = 0 /\ state = "empty" /\ groups = <<>> /\ buf = <<>>
    /\ gpc = "loop"
    /\ InflIdle /\ LetterIdle /\ ParseIdle /\ SentIdle

\* one iteration of  for token in tokens
GroupStep ==
    /\ gpc = "loop" /\ pos < Len(tokens)
    /\ LET l == GroupToken(Locals(state, groups, buf), tokens[pos + 1]) IN
         IF IsRaise(l)
         THEN /\ gpc' = "raised"
              /\ UNCHANGED <<state, groups, buf>>
         ELSE /\ state' = l.state /\ groups' = l.groups /\ buf' = l.buf
              /\ gpc' = "loop"
    /\ pos' = pos + 1
    /\ UNCHANGED tokens
    /\ UNCHANGED <<inflVars, letterVars, parseVars, sentVars>>

\* the flush after the loop and the return
GroupReturn ==
    /\ gpc = "loop" /\ pos = Len(tokens)
    /\ groups' = GroupFlush(Locals(state, groups, buf))
    /\ gpc' = "done"
    /\ UNCHANGED <<tokens, pos, state, buf>>
    /\ UNCHANGED <<inflVars, letterVars, parseVars, sentVars>>

NextGroup == GroupStep \/ GroupReturn
SpecGroup == InitGroup /\ [][NextGroup]_vars

(* ---- parse ---- *)
InitParse ==
    /\ ptext \in StrsUpTo(TextAlphabet, MaxTextLen)
    /\ text = ptext /\ parsed_sequence = <<>> /\ ppc = "loop"
    /\ InflIdle /\ LetterIdle /\ GroupIdle /\ SentIdle

\* one iteration of  while len(text) != 0
ParseStep ==
    /\ ppc = "loop" /\ Len(text) # 0
    /\ LET l == ParseIter(ParseLocals(text, parsed_sequence)) IN
         IF IsRaise(l)
         THEN /\ ppc' = "raised"
              /\ UNCHANGED <<text, parsed_sequence>>
         ELSE /\ text' = l.text /\ parsed_sequence' = l.parsed_sequence
              /\ ppc' = "loop"
    /\ UNCHANGED ptext
    /\ UNCHANGED <<inflVars, letterVars, groupVars, sentVars>>

\* the loop ends and parse returns parsed_sequence
ParseReturn ==
    /\ ppc = "loop" /\ Len(text) = 0
    /\ ppc' = "done"
    /\ UNCHANGED <<ptext, text, parsed_sequence>>
    /\ UNCHANGED <<inflVars, letterVars, groupVars, sentVars>>

NextParse == ParseStep \/ ParseReturn
\* the loop is sequential code: it runs as long as it can
SpecParse == InitParse /\ [][NextParse]_vars /\ WF_vars(NextParse)

(* ---- Sentence ---- *)
\* a Sentence is made by parse_sentence from a line of the sentences box, or
\* by the constructor of model.py
InitSent ==
    /\ \/ /\ sorigin = "parsed"
          /\ sline \in StrsUpTo(LineAlphabet, MaxLineLen)
          /\ sentence = Idle
          /\ spc = "line"
       \/ /\ sorigin = "constructed"
          /\ sline = <<>>
          /\ \E jp \in StrsUpTo(LineAlphabet, MaxFieldLen) :
               \E tr \in {NoTranslation}
                         \cup {Returned(t) : t \in StrsUpTo(LineAlphabet, MaxFieldLen)} :
                   sentence = Sentence(jp, tr)
          /\ spc = "sentence"
    /\ stext = Idle /\ sparsed = Idle
    /\ InflIdle /\ LetterIdle /\ GroupIdle /\ ParseIdle

\* sentence = parse_sentence(sline)
ParseLine ==
    /\ spc = "line"
    /\ sentence' = parse_sentence(sline)
    /\ spc' = "sentence"
    /\ UNCHANGED <<sline, sorigin, stext, sparsed>>
    /\ UNCHANGED <<inflVars, letterVars, groupVars, parseVars>>

\* stext = render_sentence(sentence)
RenderSentence ==
    /\ spc = "sentence"
    /\ stext' = Returned(render_sentence(sentence))
    /\ spc' = "rendered"
    /\ UNCHANGED <<sline, sorigin, sentence, sparsed>>
    /\ UNCHANGED <<inflVars, letterVars, groupVars, parseVars>>

\* sparsed = parse_sentence(stext)
ParseRendered ==
    /\ spc = "rendered"
    /\ sparsed' = parse_sentence(stext.s)
    /\ spc' = "reparsed"
    /\ UNCHANGED <<sline, sorigin, sentence, stext>>
    /\ UNCHANGED <<inflVars, letterVars, groupVars, parseVars>>

NextSent == ParseLine \/ RenderSentence \/ ParseRendered
SpecSent == InitSent /\ [][NextSent]_vars

(* ---- everything ---- *)
Init == InitInfl \/ InitLetter \/ InitGroup \/ InitParse \/ InitSent
Next == NextInfl \/ NextLetter \/ NextGroup \/ NextParse \/ NextSent
Spec == Init /\ [][Next]_vars

(***************************************************************************)
(* Properties of Inflections and has_ichidan_ending (SpecInfl)             *)
(***************************************************************************)
\* the nine dictionary-form endings ru tsu u ku su bu mu nu gu
ValidEndings == {12427, 12388, 12358, 12367, 12377, 12406, 12416, 12396, 12368}

IchidanMismatch == Raise("ValueError", "verb has no ichidan ending")
InvalidVerbEnding == Raise("ValueError", "Final kana letter is no valid verb ending")

\* the second-to-last character is an ideograph and the last one is ru
KanjiThenRu(verb) ==
    Len(verb) >= 2 /\ is_kanji(SndLastCh(verb)) /\ LastCh(verb) = RU

\* C1: Inflections(verb, ICHIDAN) raises the ichidan-mismatch error only
\* when has_ichidan_ending(verb) is False, and when the check is
\* indeterminate (kanji + ru) construction succeeds.
C1_IndeterminateIsAccepted ==
    (ipc = "constructed" /\ verb_type = ICHIDAN) =>
        /\ obj = IchidanMismatch => has_ichidan_ending(base_verb) = PyBool(FALSE)
        /\ KanjiThenRu(base_verb) => obj.tag = "Inflections"

\* what C2 says has_ichidan_ending returns
C2_Expected(verb) ==
    IF Len(verb) < 2 THEN PyBool(FALSE)
    ELSE IF is_kanji(SndLastCh(verb)) THEN PyNoneValue
    ELSE PyBool(/\ verb[Len(verb) - 1] \in DOMAIN by_letter
                /\ by_letter[verb[Len(verb) - 1]][2] \in {<<105>>, <<101>>}
                /\ LastCh(verb) = RU)

\* C2: has_ichidan_ending never raises and returns False for a verb shorter
\* than 2, None whenever the second-to-last character is an ideograph, and
\* otherwise True iff the second-to-last kana has column i or e and the last
\* character is ru.
C2_TotalTriState ==
    ipc = "has_ichidan_ending" => ret = C2_Expected(base_verb)

\* C3: for a verb of length >= 2, a Godan request is constructed iff the
\* last character is one of the nine endings, whatever precedes it; any
\* other last character raises the invalid-verb-ending error for every type.
C3_EndingDecidesGodan ==
    (ipc = "constructed" /\ Len(base_verb) >= 2) =>
        /\ (base_verb[Len(base_verb)] \in ValidEndings /\ verb_type = GODAN) =>
              /\ obj.tag = "Inflections"
              /\ obj.base_verb = base_verb /\ obj.verb_type = GODAN
        /\ base_verb[Len(base_verb)] \notin ValidEndings => obj = InvalidVerbEnding

\* a Godan request on kanji + small tsu + gu has been constructed
C3_Witness ==
    /\ ipc = "constructed" /\ verb_type = GODAN
    /\ base_verb = <<39154, 12387, 12368>>
    /\ obj.tag = "Inflections"

\* the te-form C4 gives for a verb and a type
C4_Expected(verb, vt) ==
    LET stem == SubSeq(verb, 1, Len(verb) - 1)
        last == verb[Len(verb)]
    IN  IF vt = ICHIDAN THEN stem \o <<12390>>
        ELSE IF last \in {12358, 12388, 12427} THEN stem \o <<12387, 12390>>
        ELSE IF last = 12367 THEN stem \o <<12356, 12390>>
        ELSE IF last = 12377 THEN stem \o <<12375, 12390>>
        ELSE IF last \in {12406, 12416, 12396} THEN stem \o <<12435, 12391>>
        ELSE IF last = 12368 THEN stem \o <<12356, 12391>>
        ELSE <<>>

\* te() of Inflections(verb, vt)
TeOf(verb, vt) == te(Inflections(verb, vt, NoneSet, PyNone))

\* C4: te() of a constructed Ichidan request is the verb minus its last
\* character plus te; of a Godan request the stem plus tte (u tsu ru), ite
\* (ku), shite (su), nde (bu mu nu), ide (gu); it never raises for them.
\* Golden cases: nomu, kaku, hanasu, kau (Godan), taberu (Ichidan).
C4_TeForm ==
    /\ (ipc = "te" /\ verb_type \in {ICHIDAN, GODAN}) =>
           ret = Returned(C4_Expected(base_verb, verb_type))
    /\ TeOf(<<39154, 12416>>, GODAN) = Returned(<<39154, 12435, 12391>>)
    /\ TeOf(<<26360, 12367>>, GODAN) = Returned(<<26360, 12356, 12390>>)
    /\ TeOf(<<35441, 12377>>, GODAN) = Returned(<<35441, 12375, 12390>>)
    /\ TeOf(<<36023, 12358>>, GODAN) = Returned(<<36023, 12387, 12390>>)
    /\ TeOf(<<39135, 12409, 12427>>, ICHIDAN) = Returned(<<39135, 12409, 12390>>)

\* te() has acted on the Godan request for kanji + ku
C4_Witness ==
    /\ ipc = "te" /\ verb_type = GODAN /\ base_verb = <<39154, 12367>>
    /\ ret = Returned(<<39154, 12356, 12390>>)

\* the i-column glyph C5 names for each ending: ru->ri tsu->chi u->i ku->ki
\* su->shi bu->bi mu->mi nu->ni gu->gi
C5_IColumn ==
    (12427 :> 12426) @@ (12388 :> 12385) @@ (12358 :> 12356) @@
    (12367 :> 12365) @@ (12377 :> 12375) @@ (12406 :> 12403) @@
    (12416 :> 12415) @@ (12396 :> 12395) @@ (12368 :> 12366)

\* C5: masu() of a constructed Godan request never raises and is the verb
\* minus its last character, the i-column glyph of that character's row, and
\* masu; of an Ichidan request the verb minus its last character plus masu.
C5_MasuForm ==
    /\ (ipc = "masu" /\ verb_type = GODAN) =>
           ret = Returned(ButLast(base_verb)
                            \o <<C5_IColumn[base_verb[Len(base_verb)]]>>
                            \o <<12414, 12377>>)
    /\ (ipc = "masu" /\ verb_type = ICHIDAN) =>
           ret = Returned(ButLast(base_verb) \o <<12414, 12377>>)

\* masu() has acted on nomu (Godan): nomimasu
C5_Witness ==
    /\ ipc = "masu" /\ verb_type = GODAN /\ base_verb = <<39154, 12416>>
    /\ ret = Returned(<<39154, 12415, 12414, 12377>>)

(***************************************************************************)
(* Properties of HiraganaLetter (SpecLetter)                               *)
(***************************************************************************)
\* same glyph, row and column
SameLetter(a, b) ==
    a.tag = "letter" /\ b.tag = "letter"
        /\ a.c = b.c /\ a.row = b.row /\ a.ending = b.ending

\* the glyphs with a documented irregular spelling: shi chi tsu fu ji(z)
\* ji(d) zu(d)
IrregularGlyphs == {12375, 12385, 12388, 12405, 12376, 12386, 12389}

\* C6: for every glyph of the table that has no documented irregular
\* spelling, from_str(HiraganaLetter(g).romaji()) is a letter with the glyph,
\* row and column of g.
C6_RomajiRoundTrip ==
    (lpc = "from_str" /\ orig.c[1] \notin IrregularGlyphs) => SameLetter(out, orig)

\* the round trip holds for every glyph but the d-row ji and zu, which share
\* their spelling with the z row, and the syllabic n (glyph 12435)
C6_RoundTripButN ==
    (lpc = "from_str" /\ orig.c[1] \notin {12386, 12389, 12435}) =>
        SameLetter(out, orig)

\* the rows with a dakuten rule: k s t h
DakutenRows == {<<107>>, <<115>>, <<116>>, <<104>>}

\* C7: for x in rows k, s, t, h, x.with_dakuten("dakuten") is a letter of
\* the same column and .with_dakuten(None) of it is x again; the same for
\* "handakuten" and row h.
C7_SoundMarkRoundTrip ==
    LET covered == \/ arg.val = PyStr("dakuten") /\ orig.row \in DakutenRows
                   \/ arg.val = PyStr("handakuten") /\ orig.row = <<104>>
    IN  /\ (lpc = "marked" /\ covered) =>
               /\ mid.tag = "letter"
               /\ mid.ending = orig.ending
               /\ mid.dakuten = arg.val
        /\ (lpc = "unmarked" /\ covered) => SameLetter(out, orig)

\* the round trip of C7 when the mark handed in is the object of the literal
\* that line 115 or 117 compares with
C7_RoundTripForLiterals ==
    LET covered == \/ arg.val = PyStr("dakuten") /\ orig.row \in DakutenRows
                   \/ arg.val = PyStr("handakuten") /\ orig.row = <<104>>
    IN  /\ (lpc = "marked" /\ covered /\ arg.lit) =>
               /\ mid.tag = "letter"
               /\ mid.ending = orig.ending
               /\ mid.dakuten = arg.val
        /\ (lpc = "unmarked" /\ covered /\ arg.lit) => SameLetter(out, orig)
        /\ (lpc = "marked" /\ covered /\ ~arg.lit) =>
               mid = Raise("ValueError", "dakuten must either be 'dakuten' or 'handakuten'")

\* the five columns
Columns == {<<97>>, <<105>>, <<117>>, <<101>>, <<111>>}

\* C8: with_ending(letter, col) raises the invalid-column error for every
\* col outside a i u e o, and for every letter of the table and every col in
\* a i u e o returns the letter of the same row with column col.
C8_WithEnding ==
    lpc = "with_ending" =>
        IF arg \in Columns
        THEN out.tag = "letter" /\ out.row = orig.row /\ out.ending = arg
        ELSE out = Raise("ValueError", "Ending must be one of 'aiueo'")

\* what with_ending does: the claim holds where the row has the column, and
\* KeyError escapes otherwise (rows y, w, nn; the empty str and "ai" pass the
\* substring test)
C8_WithEndingAsCoded ==
    lpc = "with_ending" =>
        IF arg \in Columns /\ arg \in DOMAIN rows[orig.row]
        THEN out.tag = "letter" /\ out.row = orig.row /\ out.ending = arg
        ELSE IF arg \in Columns \cup {<<>>, <<97, 105>>}
        THEN out = Raise("KeyError", "")
        ELSE out = Raise("ValueError", "Ending must be one of 'aiueo'")

(***************************************************************************)
(* Properties of group (SpecGroup)                                         *)
(***************************************************************************)
\* the last index of the run of Kanji tokens of ts that starts at i
RECURSIVE RunEnd(_, _)
RunEnd(ts, i) ==
    IF i < Len(ts) /\ ts[i + 1].tag = "Kanji" THEN RunEnd(ts, i + 1) ELSE i

\* the maximal runs of consecutive Kanji tokens of ts from index i on, each
\* as the node C9 describes: the kanji in order, and the token right after
\* the run as furigana iff that token is a Furigana
RECURSIVE MaximalKanjiRuns(_, _)
MaximalKanjiRuns(ts, i) ==
    IF i > Len(ts) THEN <<>>
    ELSE IF ts[i].tag # "Kanji" THEN MaximalKanjiRuns(ts, i + 1)
    ELSE LET j == RunEnd(ts, i)
             fur == IF j < Len(ts) /\ ts[j + 1].tag = "Furigana"
                    THEN ts[j + 1] ELSE NoFurigana
         IN  <<KanjiSequence(SubSeq(ts, i, j), fur)>> \o MaximalKanjiRuns(ts, j + 1)

IsKanjiSequence(node) == node.tag = "KanjiSequence"

\* C9: the KanjiSequence nodes group returns are, in order, exactly the
\* maximal runs of consecutive Kanji tokens, each carrying as furigana the
\* Furigana token that immediately follows the run, and none otherwise.
C9_KanjiRuns ==
    gpc = "done" => SelectSeq(groups, IsKanjiSequence) = MaximalKanjiRuns(tokens, 1)

\* group has returned one KanjiSequence of two kanji with the furigana nihon
\* for the tokens ni hon ^nihon
C9_Witness ==
    /\ gpc = "done"
    /\ tokens = <<Kanji(<<26085>>), Kanji(<<26412>>), Furigana(<<12395, 12411, 12435>>)>>
    /\ groups = <<KanjiSequence(<<Kanji(<<26085>>), Kanji(<<26412>>)>>,
                                Furigana(<<12395, 12411, 12435>>))>>

\* ts without its i-th element
RemoveAt(ts, i) == SubSeq(ts, 1, i - 1) \o SubSeq(ts, i + 1, Len(ts))

\* the state group is in when it meets the i-th token of ts
StateAt(ts, i) == GroupLoop(Locals("empty", <<>>, <<>>), SubSeq(ts, 1, i - 1)).state

\* the loop is about to consume a Furigana in state empty or buffer str
FuriganaOutOfPlace ==
    /\ gpc = "loop" /\ pos < Len(tokens)
    /\ tokens[pos + 1].tag = "Furigana"
    /\ state \in {"empty", "buffer str"}

\* C10: a Furigana token met in state empty or buffer str changes neither
\* state, buf nor groups and raises nothing, and what group returns is what
\* it returns for the tokens without that Furigana.
C10_FuriganaDiscarded ==
    /\ [][FuriganaOutOfPlace =>
             /\ state' = state /\ buf' = buf /\ groups' = groups
             /\ gpc' = "loop"]_vars
    /\ [](gpc = "done" =>
             \A i \in 1..Len(tokens) :
                 (tokens[i].tag = "Furigana" /\ StateAt(tokens, i) \in {"empty", "buffer str"})
                     => groups = group(RemoveAt(tokens, i)))

\* group has returned the single KanjiSequence go, without furigana, for the
\* tokens ^nihon go
C10_Witness ==
    /\ gpc = "done"
    /\ tokens = <<Furigana(<<12395, 12411, 12435>>), Kanji(<<35486>>)>>
    /\ groups = <<KanjiSequence(<<Kanji(<<35486>>)>>, NoFurigana)>>

(***************************************************************************)
(* Properties of parse (SpecParse)                                         *)
(***************************************************************************)
\* the text starts with a ^ that no hiragana follows
CaretWithoutKana ==
    /\ Len(text) >= 1 /\ text[1] = 94
    /\ (Len(text) >= 2 => ~is_hiragana(<<text[2]>>))

\* C11: parse terminates and never raises on any text: every iteration of
\* its loop removes at least one character, the "no match" raise is never
\* reached, and a ^ that no hiragana follows gives a Furigana with empty text
\* and removes the ^ alone.
C11_ParseTotal ==
    /\ [][ppc = "loop" /\ Len(text) # 0 =>
             /\ Len(text') < Len(text)
             /\ Len(parsed_sequence') = Len(parsed_sequence) + 1]_vars
    /\ [](ppc # "raised")
    /\ [][ppc = "loop" /\ CaretWithoutKana =>
             /\ parsed_sequence' = Append(parsed_sequence, Furigana(<<>>))
             /\ text' = Tail(text)]_vars
    /\ <>(ppc = "done")

\* parse has returned the empty Furigana and the plain a for the text ^a
C11_Witness ==
    /\ ppc = "done" /\ ptext = <<94, 97>>
    /\ parsed_sequence = <<Furigana(<<>>), Plain(<<97>>)>>

(***************************************************************************)
(* Properties of the sentence box text (SpecSent)                          *)
(***************************************************************************)
\* C12: for every Sentence s, parse_sentence(render_sentence(s)) has the jp
\* and the translation of s.
C12_SentenceRoundTrip ==
    spc = "reparsed" =>
        /\ sparsed.jp = sentence.jp
        /\ sparsed.translation = sentence.translation

\* the round trip holds for the Sentences parse_sentence returns: their jp is
\* stripped and holds no =, their translation is None or stripped
C12_RoundTripOfParsed ==
    (spc = "reparsed" /\ sorigin = "parsed") =>
        /\ sparsed.jp = sentence.jp
        /\ sparsed.translation = sentence.translation

(***************************************************************************)
(* Properties of the nodes of group (SpecGroup)                            *)
(***************************************************************************)
\* the characters of the str tokens b, in order, without the whitespace ones
RECURSIVE WithoutWhitespace(_)
WithoutWhitespace(b) ==
    IF b = <<>> THEN <<>>
    ELSE (IF b[1].s[1] \in Whitespace THEN <<>> ELSE <<b[1].s[1]>>)
             \o WithoutWhitespace(Tail(b))

\* the plain runs of ts from index i on, cur being the str tokens met since
\* the last Kanji or SPACE token (open: there is one at least); a Furigana
\* neither ends nor starts a run
RECURSIVE PlainRuns(_, _, _, _)
PlainRuns(ts, i, cur, open) ==
    LET flushed == IF open THEN <<Plain(WithoutWhitespace(cur))>> ELSE <<>> IN
    IF i > Len(ts) THEN flushed
    ELSE IF ts[i].tag = "str" THEN PlainRuns(ts, i + 1, Append(cur, ts[i]), TRUE)
    ELSE IF ts[i].tag = "Furigana" THEN PlainRuns(ts, i + 1, cur, open)
    ELSE flushed \o PlainRuns(ts, i + 1, <<>>, FALSE)

IsPlain(node) == node.tag = "str"
IsSpace(node) == node = SPACE

\* the text abc~def
AbcTildeDef == <<97, 98, 99, 126, 100, 101, 102>>

\* C13: every str node group emits (on a Kanji token, on a SPACE token, at
\* the end of input) is the str tokens buffered since the last flush, in
\* order, without the whitespace ones; whitespace neither splits a run nor
\* gives a SPACE node, only the SPACE token (the marker ~) does.
C13_PlainRuns ==
    /\ [][(gpc = "loop" /\ state = "buffer str" /\ groups' # groups) =>
             /\ Len(groups') >= Len(groups) + 1
             /\ groups'[Len(groups) + 1] = Plain(WithoutWhitespace(buf))
             /\ SubSeq(groups', 1, Len(groups)) = groups]_vars
    /\ [](gpc = "done" =>
             /\ SelectSeq(groups, IsPlain) = PlainRuns(tokens, 1, <<>>, FALSE)
             /\ Len(SelectSeq(groups, IsSpace)) = Len(SelectSeq(tokens, IsSpace)))
    /\ [](group(parse(AbcTildeDef))
             = <<Plain(<<97, 98, 99>>), SPACE, Plain(<<100, 101, 102>>)>>)

\* group has returned one str node aa and SPACE for the tokens a, blank, a, ~
C13_Witness ==
    /\ gpc = "done"
    /\ tokens = <<Plain(<<97>>), Plain(<<32>>), Plain(<<97>>), SPACE>>
    /\ groups = <<Plain(<<97, 97>>), SPACE>>

\* C14: in every state of group, every KanjiSequence emitted holds a kanji,
\* no two str nodes are adjacent, a KanjiSequence without furigana is not
\* followed at once by a KanjiSequence, and buf is empty exactly in state
\* empty, holds only str in buffer str and only Kanji in buffer kan.
C14_Structure ==
    gpc \in {"loop", "done"} =>
        /\ \A k \in 1..Len(groups) :
               groups[k].tag = "KanjiSequence" => Len(groups[k].kanji) >= 1
        /\ \A k \in 1..(Len(groups) - 1) :
               /\ ~(groups[k].tag = "str" /\ groups[k + 1].tag = "str")
               /\ ~(/\ groups[k].tag = "KanjiSequence"
                    /\ groups[k].furigana = NoFurigana
                    /\ groups[k + 1].tag = "KanjiSequence")
        /\ state \in {"empty", "buffer str", "buffer kan"}
        /\ (buf = <<>>) <=> (state = "empty")
        /\ state = "buffer str" => \A k \in 1..Len(buf) : buf[k].tag = "str"
        /\ state = "buffer kan" => \A k \in 1..Len(buf) : buf[k].tag = "Kanji"

\* group has returned a KanjiSequence with furigana, a KanjiSequence without
\* and a str node for the tokens ni ^nihon hon a
C14_Witness ==
    /\ gpc = "done"
    /\ tokens = <<Kanji(<<26085>>), Furigana(<<12395, 12411, 12435>>),
                  Kanji(<<26412>>), Plain(<<97>>)>>
    /\ groups = <<KanjiSequence(<<Kanji(<<26085>>)>>, Furigana(<<12395, 12411, 12435>>)),
                  KanjiSequence(<<Kanji(<<26412>>)>>, NoFurigana),
                  Plain(<<97>>)>>

====
